---- MODULE Spec2Model ----
(***************************************************************************)
(* Model of the MapHandler of cytoscape-leaflet: the component that keeps  *)
(* the positions of cytoscape nodes in step with a Leaflet map.            *)
(*                                                                         *)
(* The repository holds three revisions of the handler, modelled side by   *)
(* side and selected by the variable `variant`:                            *)
(*   "old"  src/src/map-handler.ts  (preset layout, always hides)          *)
(*   "raf"  src/unnamed/part_001    (animation frames, layouting flag;     *)
(*                                   src/unnamed/part_000 is its bundle)   *)
(*   "lock" src/src/mapHandler.ts   (tap events, node locking, move-end    *)
(*                                   settle timer)                         *)
(* cytoscape and Leaflet are collaborators: their documented behaviour is  *)
(* modelled at the places where the handler calls them.                    *)
(***************************************************************************)
EXTENDS Integers, Sequences, FiniteSets, TLC

VARIABLES
    variant,     \* which revision of MapHandler was instantiated
    phase,       \* "none" | "active" | "destroyed" | "failed"
    opts,        \* this.options (None when undefined)
    nodes,       \* cy.nodes(): ids of the nodes in the graph
    pos,         \* node.position()
    locked,      \* node.locked()
    hidden,      \* node carries HIDDEN_CLASS and display:none
    scratch,     \* node.scratch('leaflet').currentGeoposition (derived anchor)
    native,      \* what options.getPosition(node) returns (native anchor)
    vp,          \* cy viewport: zoom and pan
    flags,       \* cy.userZoomingEnabled / userPanningEnabled / autoungrabify
    orig,        \* this.original* fields of the handler
    map,         \* this.map / this.mapContainer and the Leaflet view
    panning,     \* this.panning
    layouting,   \* this.layouting (revision "raf")
    frames,      \* pending requestAnimationFrame jobs: the node set of each
    timers,      \* pending setTimeout callbacks of onMapMoveEnd
    vpAnims,     \* pending cy.animate() viewport animations (targets)
    layoutAnims, \* animated layouts in flight
    listeners,   \* callbacks of the handler that are attached
    relay,       \* the last user event on the graph container and its relay
    pointer,     \* one-shot pointer callbacks and the renderer's hoverData flags
    thrown,      \* error thrown by the last operation (None when it returned)
    last,        \* the operation handled by the last step
    pre,         \* graph configuration as it was just before Construct
    sync,        \* synchronization passes of the last step and their writes
    DEFAULT_LAYOUT, \* the module's DEFAULT_LAYOUT object: its `name` (revision "raf")
    steps        \* number of events handled so far (bounds the exploration)

vars == << variant, phase, opts, nodes, pos, locked, hidden, scratch, native,
           vp, flags, orig, map, panning, layouting, frames, timers, vpAnims,
           layoutAnims, listeners, relay, pointer, thrown, last, pre, sync,
           DEFAULT_LAYOUT, steps >>

-----------------------------------------------------------------------------
(* Values *)

Nodes == {"n1", "n2"}

\* Optional coordinates are records with a kind, so that every value of a
\* variable has one shape:
\*   "ok"       a coordinate
\*   "none"     undefined / null
\*   "badnull"  a value for which L.latLng returns null
\*   "badthrow" a value for which L.latLng throws
LL(lat, lng) == [k |-> "ok", lat |-> lat, lng |-> lng]
NoLL == [k |-> "none", lat |-> 0, lng |-> 0]
BadNull == [k |-> "badnull", lat |-> 0, lng |-> 0]
BadThrow == [k |-> "badthrow", lat |-> 0, lng |-> 0]

G1 == LL(2, 3)
G2 == LL(5, 8)

Point(x, y) == [k |-> "ok", x |-> x, y |-> y]
NoPos == [k |-> "none", x |-> 0, y |-> 0]

\* the accessor results the model draws from
NativeVals == {NoLL, BadNull, BadThrow, G1, G2}

\* Leaflet views: zoom level and the pixel origin of the container
View(z, ox, oy) == [zoom |-> z, ox |-> ox, oy |-> oy]
InitialView == View(1, 0, 0)
MoveViews == {View(1, 0, 0), View(1, 2, 1), View(0, 0, 0)}

\* points at which a user may drop a dragged node
DropPoints == {Point(4, 4), Point(7, 1)}

\* positions at which a grid layout puts the nodes
GridPositions == [n \in Nodes |-> IF n = "n1" THEN Point(25, 50) ELSE Point(75, 50)]

\* positions of the nodes before the handler exists
StartPos == [n \in Nodes |-> IF n = "n1" THEN Point(10, 10) ELSE Point(20, 12)]

\* cy viewports the application may have set before the handler exists
Identity == [zoom |-> 1, pan |-> Point(0, 0)]
StartViewports == {Identity, [zoom |-> 2, pan |-> Point(5, 5)]}

\* cy interaction flags the application may have set before the handler exists
Flags(uz, up, aug) ==
    [userZoomingEnabled |-> uz, userPanningEnabled |-> up, autoungrabify |-> aug]
StartFlags == {Flags(TRUE, TRUE, FALSE), Flags(FALSE, TRUE, TRUE)}

\* bounds of the model
MaxSteps == 5
MaxPending == 2
MaxTimers == 1
MaxChain == 3

-----------------------------------------------------------------------------
(* Leaflet: coordinates and projection *)

\* L.latLng(value): the coordinate constructor; kind "badthrow" throws
latLng(v) == IF v.k = "badnull" THEN NoLL ELSE v

Scale(z, g) == IF z = 1 THEN g ELSE (g + 1) \div 2
Unscale(z, q) == IF z = 1 THEN q ELSE 2 * q

\* map.latLngToContainerPoint: rounds to whole pixels
latLngToContainerPoint(v, ll) ==
    Point(Scale(v.zoom, ll.lng) - v.ox, Scale(v.zoom, ll.lat) - v.oy)

\* map.containerPointToLatLng
containerPointToLatLng(v, p) ==
    LL(Unscale(v.zoom, p.y + v.oy), Unscale(v.zoom, p.x + v.ox))

Min(S) == CHOOSE a \in S : \A b \in S : a <= b
Max(S) == CHOOSE a \in S : \A b \in S : a >= b

DEFAULT_FIT_PADDING == Point(50, 50)

\* map.fitBounds(bounds, {padding, animate: false}): the largest zoom at which
\* the bounds fit, the south-west corner of the bounds at the padding
fitBounds(lls, padding) ==
    LET z == IF Max({l.lng : l \in lls}) - Min({l.lng : l \in lls}) <= 4 THEN 1 ELSE 0
    IN View(z, Scale(z, Min({l.lng : l \in lls})) - padding.x,
               Scale(z, Min({l.lat : l \in lls})) - padding.y)

-----------------------------------------------------------------------------
(* The state as one record, so that the handler's methods compose *)

\* no synchronization pass has run: `passes` counts the passes over all the
\* nodes that ran one after the other, `writes` the node positions that the
\* latest pass wrote
NoSync == [passes |-> 0, writes |-> 0]

\* every step starts with the counters of `sync` cleared
World ==
    [variant |-> variant, phase |-> phase, opts |-> opts, nodes |-> nodes,
     pos |-> pos, locked |-> locked, hidden |-> hidden, scratch |-> scratch,
     native |-> native, vp |-> vp, flags |-> flags, orig |-> orig, map |-> map,
     panning |-> panning, layouting |-> layouting, frames |-> frames,
     timers |-> timers, vpAnims |-> vpAnims, layoutAnims |-> layoutAnims,
     listeners |-> listeners, relay |-> relay, pointer |-> pointer,
     thrown |-> thrown, last |-> last, pre |-> pre, sync |-> NoSync,
     DEFAULT_LAYOUT |-> DEFAULT_LAYOUT]

Commit(w) ==
    /\ steps < MaxSteps
    /\ variant' = w.variant /\ phase' = w.phase /\ opts' = w.opts
    /\ nodes' = w.nodes /\ pos' = w.pos /\ locked' = w.locked
    /\ hidden' = w.hidden /\ scratch' = w.scratch /\ native' = w.native
    /\ vp' = w.vp /\ flags' = w.flags /\ orig' = w.orig /\ map' = w.map
    /\ panning' = w.panning /\ layouting' = w.layouting /\ frames' = w.frames
    /\ timers' = w.timers /\ vpAnims' = w.vpAnims
    /\ layoutAnims' = w.layoutAnims /\ listeners' = w.listeners
    /\ relay' = w.relay /\ pointer' = w.pointer /\ thrown' = w.thrown
    /\ last' = w.last /\ pre' = w.pre /\ sync' = w.sync
    /\ DEFAULT_LAYOUT' = w.DEFAULT_LAYOUT
    /\ steps' = steps + 1

\* this.options; `defined` is FALSE when the field is undefined.
\* getPosition: "fn" | "nonfn"; setPosition: "absent" | "fn" | "falsy" | "truthy"
\* (the last two are values that are not functions)
Options(gp, sp, an, hide) ==
    [defined |-> TRUE, getPosition |-> gp, setPosition |-> sp, animate |-> an,
     hideNonPositional |-> hide, layout |-> "absent"]
\* JavaScript truthiness of an option value
Truthy(v) == v \in {"fn", "truthy"}

NoOptions ==
    [defined |-> FALSE, getPosition |-> "nonfn", setPosition |-> "absent",
     animate |-> FALSE, hideNonPositional |-> FALSE, layout |-> "absent"]

NoPositions == [n \in Nodes |-> NoPos]

\* the original* fields, all undefined
NoOrig ==
    [flagsSet |-> FALSE, flags |-> Flags(FALSE, FALSE, FALSE),
     viewportSet |-> FALSE, viewport |-> Identity,
     positionsSet |-> FALSE, positions |-> NoPositions]

NoMap == [present |-> FALSE, view |-> InitialView, moving |-> FALSE]

\* DOM events: type, target, pressed buttons, a multiple-selection modifier
\* key (shift, meta or ctrl), and whether the user agent created the event
DomEvent(type, target, buttons, mod, trusted) ==
    [type |-> type, target |-> target, buttons |-> buttons, mod |-> mod,
     trusted |-> trusted]
NoEvent == DomEvent("none", "none", 0, FALSE, FALSE)

\* the relay of one user event: the event, whether its default action was
\* prevented, how many events were dispatched on the map container, the last
\* of them, the targets of the events that were forwarded, the longest chain
\* of forwards, and renderer.hoverData.down at the time of the event
NoRelay ==
    [event |-> NoEvent, prevented |-> FALSE, dispatched |-> 0, sent |-> NoEvent,
     from |-> {}, depth |-> 0, down |-> FALSE]

\* no one-shot callback pending, hoverData.dragging and .dragged unset, no
\* pointer button held (`held` is MouseEvent.buttons of the pointer)
NoPointer ==
    [ups |-> 0, drags |-> 0, dragging |-> FALSE, dragged |-> FALSE, held |-> 0]

\* the operation of a step: the nodes whose synchronization pass completed in
\* it, the map view of the pass, and for node events the node, the point where
\* it was dropped and the coordinate handed to options.setPosition, and for
\* a call of fit the nodes it was given
Op(name, ns, view) ==
    [op |-> name, synced |-> ns, view |-> view, arg |-> NoLL, target |-> "none",
     point |-> NoPos, eles |-> {}]

-----------------------------------------------------------------------------
(* cytoscape: node positions, viewport fit *)

\* node.position(p): a locked node does not move; an unlocked node takes the
\* position and emits 'position', whether or not p differs from where it is
NodePosition(w, n, p) ==
    IF w.locked[n] THEN w
    ELSE [w EXCEPT !.pos[n] = p, !.sync.writes = @ + 1]

\* cy.fit(eles, padding): zoom and pan follow the bounding box of eles;
\* nothing happens for an empty collection
cyFit(w, eles, padding) ==
    IF eles = {} THEN w
    ELSE LET xs == {w.pos[n].x : n \in eles}
             ys == {w.pos[n].y : n \in eles}
             z == IF Max(xs) - Min(xs) <= 5 /\ Max(ys) - Min(ys) <= 5 THEN 2 ELSE 1
         IN [w EXCEPT !.vp = [zoom |-> z,
                              pan |-> Point(padding - z * Min(xs),
                                            padding - z * Min(ys))]]

\* cy.viewport({zoom, pan})
cyViewport(w, v) == [w EXCEPT !.vp = v]

\* cy.animate({zoom, pan}, ...): the viewport reaches the target later
cyAnimate(w, v) == [w EXCEPT !.vpAnims = Append(@, v)]

-----------------------------------------------------------------------------
(* MapHandler: anchors *)

\* getNodeLngLat that takes the accessor's value for a coordinate without
\* handing it to L.latLng
getNodeLngLat_Unconverted(w, n) ==
    IF ~w.opts.defined \/ w.opts.getPosition # "fn" THEN NoLL
    ELSE LET lngLatLike == w.native[n]
         IN IF lngLatLike.k = "none" THEN NoLL
            ELSE [lngLatLike EXCEPT !.k = "ok"]

\* getNodeLngLat: the native anchor, absent when the accessor's value is
\* falsy or rejected by L.latLng (the exception is caught)
getNodeLngLat(w, n) ==
    IF ~w.opts.defined \/ w.opts.getPosition # "fn" THEN NoLL
    ELSE LET lngLatLike == w.native[n]
         IN IF lngLatLike.k = "none" THEN NoLL
            ELSE IF lngLatLike.k = "badthrow" THEN NoLL
            ELSE latLng(lngLatLike)

\* anchor resolution that prefers the cached anchor to the native one
resolveAnchor_CachedFirst(w, n, onlyNativePosition) ==
    LET lngLat == getNodeLngLat(w, n)
    IN IF w.variant = "old" \/ onlyNativePosition THEN lngLat
       ELSE IF w.scratch[n].k = "ok" THEN w.scratch[n]
       ELSE lngLat

\* the anchor that getGeographicPosition resolves: revision "old" knows the
\* native anchor only, the others fall back to the cached one
resolveAnchor(w, n, onlyNativePosition) ==
    LET lngLat == getNodeLngLat(w, n)
    IN IF w.variant = "old" \/ onlyNativePosition THEN lngLat
       ELSE IF lngLat.k = "ok" THEN lngLat
       ELSE w.scratch[n]

\* getGeographicPosition without the test for a missing anchor
getGeographicPosition_Unchecked(w, n, onlyNativePosition) ==
    LET lngLat == resolveAnchor(w, n, onlyNativePosition)
    IN IF ~w.map.present THEN NoPos
       ELSE latLngToContainerPoint(w.map.view, lngLat)

\* getGeographicPosition: the anchor projected by this.map, if there is one
getGeographicPosition(w, n, onlyNativePosition) ==
    LET lngLat == resolveAnchor(w, n, onlyNativePosition)
    IN IF lngLat.k # "ok" THEN NoPos
       ELSE IF ~w.map.present THEN NoPos
       ELSE latLngToContainerPoint(w.map.view, lngLat)

\* filterNodes
filterNodes(w, type, ns) ==
    LET onlyNative == type \in {"native-geographic", "not-native-geographic"}
        has(n) == getGeographicPosition(w, n, onlyNative).k = "ok"
    IN IF type \in {"geographic", "native-geographic"}
       THEN {n \in ns : has(n)}
       ELSE {n \in ns : ~has(n)}

\* saveLayoutPositionAsLatLng / saveInternalLayoutPositionAsLatLng
saveLayoutPositionAsLatLng(w, ns) ==
    [w EXCEPT !.scratch =
        [n \in Nodes |->
            IF n \in ns
            THEN IF w.map.present
                 THEN containerPointToLatLng(w.map.view, w.pos[n])
                 ELSE NoLL
            ELSE @[n]]]

\* deleteLatLngLayoutPosition / deleteInternalLayoutPosition
deleteLatLngLayoutPosition(w, ns) ==
    [w EXCEPT !.scratch = [n \in Nodes |-> IF n \in ns THEN NoLL ELSE @[n]]]

\* getNodeLngLatBounds that extends the bounds by the resolved anchors
getNodeLngLatBounds_Resolved(w, ns) ==
    {resolveAnchor(w, n, FALSE) :
        n \in {m \in ns : resolveAnchor(w, m, FALSE).k = "ok"}}

\* getNodeLngLatBounds: the native anchors of the nodes
getNodeLngLatBounds(w, ns) ==
    {getNodeLngLat(w, n) : n \in {m \in ns : getNodeLngLat(w, m).k = "ok"}}

\* fit: skipped when the bounds are not valid
fit(w, ns, padding) ==
    LET bounds == getNodeLngLatBounds(w, ns)
    IN IF bounds = {} THEN w
       ELSE IF ~w.map.present THEN w
       ELSE [w EXCEPT !.map.view = fitBounds(bounds, padding)]

-----------------------------------------------------------------------------
(* Layout events and the preset layout *)

\* onLayoutStart (revision "raf")
onLayoutStart(w, targets) ==
    IF filterNodes(w, "not-native-geographic", targets) # {}
    THEN [w EXCEPT !.layouting = TRUE]
    ELSE w

\* onLayoutStop (revision "raf")
onLayoutStop(w, targets) ==
    LET w1 == IF filterNodes(w, "not-native-geographic", targets) # {}
              THEN [w EXCEPT !.layouting = FALSE]
              ELSE w
    IN saveLayoutPositionAsLatLng(w1, targets)

\* the callback that disableGeographicPositions of revision "lock" leaves
\* on the next layoutstop: evt.cy.nodes().unlock()
onLayoutStopOnce(w) ==
    [w EXCEPT !.locked = [n \in Nodes |-> IF n \in w.nodes THEN FALSE ELSE @[n]],
              !.listeners = @ \ {"layoutstop.once"}]

emitLayoutStart(w, eles) ==
    IF "layoutstart" \in w.listeners THEN onLayoutStart(w, eles) ELSE w

emitLayoutStop(w, eles) ==
    LET w1 == IF "layoutstop" \in w.listeners THEN onLayoutStop(w, eles) ELSE w
    IN IF "layoutstop.once" \in w1.listeners THEN onLayoutStopOnce(w1) ELSE w1

\* the stop callback given to the layout by disableGeographicPositions of
\* revision "old": show the nodes that carry HIDDEN_CLASS
stopCallback(w, stop) ==
    IF stop = "show"
    THEN [w EXCEPT !.hidden = [n \in Nodes |-> IF n \in w.nodes THEN FALSE ELSE @[n]]]
    ELSE w

\* the end of a layout: positions written, optional fit, then layoutstop
layoutDone(w, l) ==
    LET RECURSIVE place(_, _)
        place(x, todo) ==
            IF todo = {} THEN x
            ELSE LET n == CHOOSE m \in todo : TRUE
                 IN place(IF l.targets[n].k = "ok"
                          THEN NodePosition(x, n, l.targets[n]) ELSE x,
                          todo \ {n})
        w1 == place(w, Nodes)
        w2 == IF l.fit THEN cyFit(w1, l.eles, l.padding) ELSE w1
    IN emitLayoutStop(stopCallback(w2, l.stop), l.eles)

\* eles.layout({name: 'preset', positions, fit, animate, stop}).run():
\* a node moves when it is in eles, has a position in `positions` and is not
\* locked; an animated layout ends later
runLayout(w, eles, positions, fitOpt, padding, animate, stop) ==
    LET w1 == emitLayoutStart(w, eles)
        l == [eles |-> eles,
              targets |-> [n \in Nodes |->
                              IF n \in eles /\ positions[n].k = "ok" /\ ~w1.locked[n]
                              THEN positions[n] ELSE NoPos],
              fit |-> fitOpt, padding |-> padding, stop |-> stop]
    IN IF animate THEN [w1 EXCEPT !.layoutAnims = Append(@, l)]
       ELSE layoutDone(w1, l)

\* DEFAULT_LAYOUT with the defaults of the preset layout: the nodes keep
\* their positions and the viewport is fitted to them
\* their positions and the viewport is fitted to them. options.layout is
\* "absent" or the name of the layout it asks for; assign copies the keys of
\* its sources into its first argument, which is DEFAULT_LAYOUT itself, and
\* returns it.
assign(tgt, src) == IF src = "absent" THEN tgt ELSE src

getDefaultLayout(w) ==
    [name |-> assign(w.DEFAULT_LAYOUT,
                     IF w.opts.defined THEN w.opts.layout ELSE "absent"),
     fit |-> TRUE, padding |-> 30]

\* where a layout puts the nodes: preset without positions leaves them
\* where they are, grid puts them in the cells of a grid
layoutPositions(w, name) ==
    IF name = "preset" THEN [n \in Nodes |-> w.pos[n]] ELSE GridPositions

\* nodes.layout(this.getDefaultLayout()).run()
runGivenDefaultLayout(w, ns) ==
    LET lay == getDefaultLayout(w)
        w1 == [w EXCEPT !.DEFAULT_LAYOUT = lay.name]
    IN runLayout(w1, ns, layoutPositions(w1, lay.name), lay.fit, lay.padding,
                 FALSE, "none")

\* runDefaultLayout
runDefaultLayout(w, ns) ==
    runGivenDefaultLayout(deleteLatLngLayoutPosition(w, ns), ns)

-----------------------------------------------------------------------------
(* MapHandler: position synchronization *)

\* a synchronization pass over the nodes ns begins
beginPass(w, ns) ==
    [w EXCEPT !.sync = [passes |-> IF ns = w.nodes THEN @.passes + 1 ELSE 0,
                        writes |-> 0]]

\* arePositionsEqual
arePositionsEqual(position1, position2) ==
    position1.x = position2.x /\ position1.y = position2.y

\* the positions map that the passes build: node -> projected anchor
geographicPositions(w, ns) ==
    [n \in Nodes |-> IF n \in ns THEN getGeographicPosition(w, n, FALSE) ELSE NoPos]

\* getUpdatedPositions: the entries of positions that differ from the
\* current position of the node
getUpdatedPositions(currentPositions, positions) ==
    [n \in Nodes |->
        IF positions[n].k = "ok" /\ ~arePositionsEqual(currentPositions[n], positions[n])
        THEN positions[n] ELSE NoPos]

\* addClass(HIDDEN_CLASS).style('display', 'none')
hide(w, ns) ==
    [w EXCEPT !.hidden = [n \in Nodes |-> IF n \in ns THEN TRUE ELSE @[n]]]

\* updateNodePosition (revision "lock"): unlock, write the position and lock
\* when the node has an anchor, else hide it if hideNonPositional is set
updateNodePosition(w, ns) ==
    LET positions == geographicPositions(w, ns)
        w0 == beginPass(w, ns)
        w1 == [w0 EXCEPT
                 !.pos = [n \in Nodes |->
                            IF n \in ns /\ positions[n].k = "ok"
                            THEN positions[n] ELSE @[n]],
                 !.locked = [n \in Nodes |->
                            IF n \in ns THEN positions[n].k = "ok" ELSE @[n]],
                 !.sync.writes =
                     Cardinality({n \in ns : positions[n].k = "ok"})]
    IN IF w.opts.defined /\ w.opts.hideNonPositional
       THEN hide(w1, {n \in ns : positions[n].k # "ok"})
       ELSE w1

\* updateGeographicPositions of revision "old": hides the nodes without
\* position and runs a preset layout of the changed positions on the graph
updateOld(w, ns) ==
    LET positions == geographicPositions(w, ns)
        updatedPositions == getUpdatedPositions(w.pos, positions)
        w1 == hide(beginPass(w, ns), {n \in ns : positions[n].k # "ok"})
    IN IF w.phase # "active" THEN w1
       ELSE runLayout(w1, w1.nodes, updatedPositions, FALSE, 0, FALSE, "none")

\* updatePositions, the body of the animation frame job of revision "raf"
updatePositions(w, ns) ==
    LET positions == geographicPositions(w, ns)
        updatedPositions == getUpdatedPositions(w.pos, positions)
        nodesWithoutPosition == {n \in ns : positions[n].k # "ok"}
        nodesWithPosition == {n \in ns : positions[n].k = "ok"}
        w0 == beginPass(w, ns)
        w1 == IF w.opts.defined /\ w.opts.hideNonPositional
              THEN hide(w0, nodesWithoutPosition) ELSE w0
    IN runLayout(w1, nodesWithPosition, updatedPositions, FALSE, 0, FALSE, "none")

\* window.requestAnimationFrame(job)
requestAnimationFrame(w, ns) == [w EXCEPT !.frames = Append(@, ns)]

\* updateGeographicPositions
updateGeographicPositions(w, ns) ==
    CASE w.variant = "old" -> updateOld(w, ns)
      [] w.variant = "raf" -> requestAnimationFrame(w, ns)
      [] OTHER -> updateNodePosition(w, ns)

\* the nodes whose pass is complete when updateGeographicPositions returns
syncedNow(w, ns) == IF w.variant = "raf" THEN {} ELSE ns

\* enableGeographicPositions
enableGeographicPositions(w) ==
    LET w0 == [w EXCEPT !.orig.positionsSet = TRUE,
                        !.orig.positions = [n \in Nodes |->
                             IF n \in w.nodes THEN w.pos[n] ELSE NoPos]]
        positions == geographicPositions(w0, w0.nodes)
        nodesWithoutPosition == {n \in w0.nodes : positions[n].k # "ok"}
        nodesWithPosition == {n \in w0.nodes : positions[n].k = "ok"}
    IN CASE w.variant = "old" ->
              runLayout(hide(w0, nodesWithoutPosition), w0.nodes, positions,
                        FALSE, 0, w0.opts.animate, "none")
         [] w.variant = "raf" ->
              LET w1 == IF w0.opts.hideNonPositional
                        THEN hide(w0, nodesWithoutPosition) ELSE w0
                  w2 == runLayout(w1, nodesWithPosition, positions, FALSE, 0,
                                  w0.opts.animate, "none")
              IN runGivenDefaultLayout(w2, nodesWithoutPosition)
         [] OTHER ->
              LET w1 == [w0 EXCEPT !.locked = [n \in Nodes |->
                            IF n \in w0.nodes /\ getNodeLngLat(w0, n).k = "ok"
                            THEN TRUE ELSE @[n]]]
              IN updateNodePosition(w1, w1.nodes)

\* disableGeographicPositions, as destroy calls it on a handler whose cy is
\* still defined
disableGeographicPositions(w) ==
    CASE w.variant = "old" ->
            [runLayout(w, w.nodes, w.orig.positions, FALSE, 0, w.opts.animate, "show")
                EXCEPT !.orig.positionsSet = FALSE, !.orig.positions = NoPositions]
      [] w.variant = "raf" ->
            [runDefaultLayout(deleteLatLngLayoutPosition(w, w.nodes), w.nodes)
                EXCEPT !.orig.positionsSet = FALSE, !.orig.positions = NoPositions]
      [] OTHER ->
            LET w1 == IF w.opts.defined /\ w.opts.hideNonPositional
                      THEN [w EXCEPT !.hidden = [n \in Nodes |->
                                IF n \in w.nodes THEN FALSE ELSE @[n]]]
                      ELSE w
                w2 == [w1 EXCEPT !.locked = [n \in Nodes |->
                                IF n \in w.nodes THEN FALSE ELSE @[n]]]
                w3 == cyFit(w2, w2.nodes, 0)
            IN [w3 EXCEPT !.listeners = @ \cup {"layoutstop.once"},
                          !.orig.positionsSet = FALSE,
                          !.orig.positions = NoPositions]

-----------------------------------------------------------------------------
(* MapHandler: construction and teardown *)

\* the callbacks that the constructor attaches (cy, graph container, map)
listenersOf(v) ==
    CASE v = "old" -> {"mousedown", "mousemove", "wheel", "add", "resize",
                       "dragfree", "move"}
      [] v = "raf" -> {"mousedown", "mousemove", "wheel", "add", "resize",
                       "dragfree", "data", "layoutstart", "layoutstop", "move"}
      [] OTHER -> {"tapstart", "wheel", "add", "resize", "dragfree", "cxttap",
                   "data", "move", "moveend"}

\* the callbacks that destroy detaches; map.remove() ends the map's events
detachedBy(v) ==
    CASE v = "lock" -> {"tapstart", "wheel", "add", "resize", "dragfree", "data",
                        "move", "moveend"}
      [] OTHER -> listenersOf(v)

\* the constructor without this.cy.userPanningEnabled(false)
construct_PanningLeftOn(w, v, o) ==
    LET w0 == [w EXCEPT !.variant = v, !.opts = o,
                        !.pre = [set |-> TRUE, vp |-> w.vp, flags |-> w.flags,
                                 pos |-> w.pos, hidden |-> w.hidden]]
    IN IF ~(o.getPosition = "fn")
       THEN [w0 EXCEPT !.phase = "failed",
                       !.thrown = "getPosition should be a function",
                       !.last = Op("construct", {}, w.map.view)]
       ELSE IF Truthy(o.setPosition) /\ ~(o.setPosition = "fn")
       THEN [w0 EXCEPT !.phase = "failed",
                       !.thrown = "setPosition should be a function",
                       !.last = Op("construct", {}, w.map.view)]
       ELSE
        LET w1 == [w0 EXCEPT !.phase = "active",
                             !.orig.flagsSet = TRUE, !.orig.flags = w.flags,
                             !.flags.userZoomingEnabled = FALSE,
                             !.listeners = listenersOf(v),
                             !.map = [present |-> TRUE, view |-> InitialView,
                                      moving |-> FALSE]]
            w2 == fit(w1, w1.nodes, DEFAULT_FIT_PADDING)
            w3 == [w2 EXCEPT !.orig.viewportSet = TRUE, !.orig.viewport = w2.vp]
            w4 == IF o.animate THEN cyAnimate(w3, Identity)
                  ELSE cyViewport(w3, Identity)
            w5 == enableGeographicPositions(w4)
        IN [w5 EXCEPT !.last = Op("construct",
                                  IF v # "lock" /\ o.animate THEN {} ELSE w.nodes,
                                  w5.map.view)]

\* a constructor that checks the options after it has taken over the graph
construct_ChecksLate(w, v, o) ==
    LET w0 == [w EXCEPT !.variant = v, !.opts = o,
                        !.pre = [set |-> TRUE, vp |-> w.vp, flags |-> w.flags,
                                 pos |-> w.pos, hidden |-> w.hidden],
                        !.orig.flagsSet = TRUE, !.orig.flags = w.flags,
                        !.flags.userZoomingEnabled = FALSE,
                        !.flags.userPanningEnabled = FALSE]
    IN IF ~(o.getPosition = "fn")
       THEN [w0 EXCEPT !.phase = "failed",
                       !.thrown = "getPosition should be a function",
                       !.last = Op("construct", {}, w.map.view)]
       ELSE IF Truthy(o.setPosition) /\ ~(o.setPosition = "fn")
       THEN [w0 EXCEPT !.phase = "failed",
                       !.thrown = "setPosition should be a function",
                       !.last = Op("construct", {}, w.map.view)]
       ELSE
        LET w1 == [w0 EXCEPT !.phase = "active",
                             !.listeners = listenersOf(v),
                             !.map = [present |-> TRUE, view |-> InitialView,
                                      moving |-> FALSE]]
            w2 == fit(w1, w1.nodes, DEFAULT_FIT_PADDING)
            w3 == [w2 EXCEPT !.orig.viewportSet = TRUE, !.orig.viewport = w2.vp]
            w4 == IF o.animate THEN cyAnimate(w3, Identity)
                  ELSE cyViewport(w3, Identity)
            w5 == enableGeographicPositions(w4)
        IN [w5 EXCEPT !.last = Op("construct",
                                  IF v # "lock" /\ o.animate THEN {} ELSE w.nodes,
                                  w5.map.view)]

\* new MapHandler(cy, mapOptions, options)
construct(w, v, o) ==
    LET w0 == [w EXCEPT !.variant = v, !.opts = o,
                        !.pre = [set |-> TRUE, vp |-> w.vp, flags |-> w.flags,
                                 pos |-> w.pos, hidden |-> w.hidden]]
    IN IF ~(o.getPosition = "fn")
       THEN [w0 EXCEPT !.phase = "failed",
                       !.thrown = "getPosition should be a function",
                       !.last = Op("construct", {}, w.map.view)]
       ELSE IF Truthy(o.setPosition) /\ ~(o.setPosition = "fn")
       THEN [w0 EXCEPT !.phase = "failed",
                       !.thrown = "setPosition should be a function",
                       !.last = Op("construct", {}, w.map.view)]
       ELSE
        LET w1 == [w0 EXCEPT !.phase = "active",
                             !.orig.flagsSet = TRUE, !.orig.flags = w.flags,
                             !.flags.userZoomingEnabled = FALSE,
                             !.flags.userPanningEnabled = FALSE,
                             !.listeners = listenersOf(v),
                             !.map = [present |-> TRUE, view |-> InitialView,
                                      moving |-> FALSE]]
            w2 == fit(w1, w1.nodes, DEFAULT_FIT_PADDING)
            w3 == [w2 EXCEPT !.orig.viewportSet = TRUE, !.orig.viewport = w2.vp]
            w4 == IF o.animate THEN cyAnimate(w3, Identity)
                  ELSE cyViewport(w3, Identity)
            w5 == enableGeographicPositions(w4)
        IN [w5 EXCEPT !.last = Op("construct",
                                  IF v # "lock" /\ o.animate THEN {} ELSE w.nodes,
                                  w5.map.view)]

\* destroy without `this.options = undefined`
destroy_KeepsOptions(w) ==
    IF w.phase = "active"
    THEN LET w1 == [w EXCEPT !.listeners = @ \ detachedBy(w.variant),
                             !.flags = w.orig.flags,
                             !.orig.flagsSet = FALSE,
                             !.orig.flags = NoOrig.flags,
                             !.map = NoMap]
             w2 == IF w.opts.animate THEN cyAnimate(w1, w1.orig.viewport)
                   ELSE cyViewport(w1, w1.orig.viewport)
             w3 == [w2 EXCEPT !.orig.viewportSet = FALSE,
                              !.orig.viewport = NoOrig.viewport]
             w4 == disableGeographicPositions(w3)
         IN [w4 EXCEPT !.phase = "destroyed", 
                       !.thrown = "none", !.last = Op("destroy", {}, NoMap.view)]
    ELSE \* this.cy is undefined: every step is skipped, except that revision
         \* "raf" calls layout() on the plain array that stands in for the nodes
         IF w.variant = "raf"
         THEN [w EXCEPT !.thrown = "TypeError: nodes.layout is not a function",
                        !.last = Op("destroy", {}, NoMap.view)]
         ELSE [w EXCEPT !.thrown = "none", !.last = Op("destroy", {}, NoMap.view)]

\* destroy()
destroy(w) ==
    IF w.phase = "active"
    THEN LET w1 == [w EXCEPT !.listeners = @ \ detachedBy(w.variant),
                             !.flags = w.orig.flags,
                             !.orig.flagsSet = FALSE,
                             !.orig.flags = NoOrig.flags,
                             !.map = NoMap]
             w2 == IF w.opts.animate THEN cyAnimate(w1, w1.orig.viewport)
                   ELSE cyViewport(w1, w1.orig.viewport)
             w3 == [w2 EXCEPT !.orig.viewportSet = FALSE,
                              !.orig.viewport = NoOrig.viewport]
             w4 == disableGeographicPositions(w3)
         IN [w4 EXCEPT !.phase = "destroyed", !.opts = NoOptions,
                       !.thrown = "none", !.last = Op("destroy", {}, NoMap.view)]
    ELSE \* this.cy is undefined: every step is skipped, except that revision
         \* "raf" calls layout() on the plain array that stands in for the nodes
         IF w.variant = "raf"
         THEN [w EXCEPT !.thrown = "TypeError: nodes.layout is not a function",
                        !.last = Op("destroy", {}, NoMap.view)]
         ELSE [w EXCEPT !.thrown = "none", !.last = Op("destroy", {}, NoMap.view)]

-----------------------------------------------------------------------------
(* MapHandler: event handlers *)

\* onMapMove
onMapMove(w) ==
    IF w.variant = "raf" /\ w.layouting
    THEN updateGeographicPositions(w, filterNodes(w, "native-geographic", w.nodes))
    ELSE updateGeographicPositions(w, w.nodes)

\* the node set that onMapMove synchronizes
mapMoveSet(w) ==
    IF w.variant = "raf" /\ w.layouting
    THEN filterNodes(w, "native-geographic", w.nodes) ELSE w.nodes

\* onMapMoveEnd: setTimeout(unlock the nodes without native anchor)
onMapMoveEnd(w) == [w EXCEPT !.timers = @ + 1]

\* the timer callback of onMapMoveEnd
onSettleTimer(w) ==
    IF w.phase # "active" THEN w
    ELSE [w EXCEPT !.locked = [n \in Nodes |->
                      IF n \in w.nodes /\ getNodeLngLat(w, n).k # "ok"
                      THEN FALSE ELSE @[n]]]

\* onDataChange
onDataChange(w) == updateGeographicPositions(w, w.nodes)

\* onGraphAdd
onGraphAdd(w, n) ==
    LET w1 == [w EXCEPT !.orig.positionsSet = TRUE, !.orig.positions[n] = w.pos[n]]
    IN updateGeographicPositions(w1, {n})

\* the coordinate that onGraphDragFree hands to options.setPosition
\* (NoLL when the callback is not called)
dragFreeArg(w, n) ==
    IF w.opts.defined /\ Truthy(w.opts.setPosition) /\ w.map.present
    THEN containerPointToLatLng(w.map.view, w.pos[n])
    ELSE NoLL

\* onGraphDragFree
onGraphDragFree(w, n) ==
    LET w1 == IF w.opts.defined /\ Truthy(w.opts.setPosition) THEN w
              ELSE IF w.variant = "raf" THEN saveLayoutPositionAsLatLng(w, {n})
              ELSE w
    IN updateGeographicPositions(w1, {n})

\* the callback that the constructor of revision "lock" attaches to cxttap
\* on nodes: event.target.unlock()
onContextTap(w, n) == [w EXCEPT !.locked[n] = FALSE]

\* one animation frame: the pending jobs run in the order of their request
RECURSIVE runFrames(_, _)
runFrames(w, jobs) ==
    IF jobs = << >> THEN w
    ELSE runFrames(updatePositions(w, Head(jobs)), Tail(jobs))

-----------------------------------------------------------------------------
(* MapHandler: the relay of DOM events to the map *)

\* Elements of the page. The constructor prepends the map container to the
\* graph container, so the map container and what Leaflet puts into it are
\* descendants of the graph container, next to cytoscape's canvas.
Targets == {"canvas", "graphContainer", "mapContainer", "mapPane"}

\* event.target === this.mapContainer || this.mapContainer.contains(event.target)
InMapContainer(target) == target \in {"mapContainer", "mapPane"}

\* isMultSelKeyDown that ignores the modifier keys
isMultSelKeyDown_Never(event) == FALSE

\* isMultSelKeyDown
isMultSelKeyDown(event) == event.mod

\* new event.constructor(event.type, event), as dispatchEvent delivers it:
\* type and properties are read from the event, the target is the element
\* it is dispatched on, and the event is not trusted
clonedEvent(event) ==
    DomEvent(event.type, "mapContainer", event.buttons, event.mod, FALSE)

\* event.preventDefault()
preventDefault(w, event) ==
    IF event.trusted THEN [w EXCEPT !.relay.prevented = TRUE] ELSE w

\* an event that reaches the graph container, by bubbling or because it is
\* dispatched there: the callbacks attached for its type run
RECURSIVE bubble(_, _, _, _)

\* dispatchMapEvent without its guard clause
dispatchMapEvent_NoGuard(w, event, down, chain) ==
    IF ~w.map.present THEN w
    ELSE LET w1 == [w EXCEPT !.relay.dispatched = @ + 1,
                             !.relay.sent = clonedEvent(event),
                             !.relay.from = @ \cup {event.target},
                             !.relay.depth = Max({@, chain + 1})]
         IN bubble(w1, clonedEvent(event), down, chain + 1)

\* dispatchMapEvent; `chain` counts the forwards that led to the event
dispatchMapEvent(w, event, down, chain) ==
    IF InMapContainer(event.target) THEN w
    ELSE IF ~w.map.present THEN w
    ELSE LET w1 == [w EXCEPT !.relay.dispatched = @ + 1,
                             !.relay.sent = clonedEvent(event),
                             !.relay.from = @ \cup {event.target},
                             !.relay.depth = Max({@, chain + 1})]
         IN bubble(w1, clonedEvent(event), down, chain + 1)

\* onGraphContainerWheel
onGraphContainerWheel(w, event, down, chain) ==
    IF w.variant = "old" THEN dispatchMapEvent(w, event, down, chain)
    ELSE dispatchMapEvent(preventDefault(w, event), event, down, chain)

\* onGraphContainerMouseDown; `down` is renderer.hoverData.down. Revision
\* "lock" receives it as cytoscape's tapstart, snapshots the positions of the
\* nodes and registers one-shot tapdrag and tapend callbacks; the others
\* register a one-shot mouseup callback on the document.
onGraphContainerMouseDown(w, event, down, chain) ==
    IF event.buttons = 1 /\ ~isMultSelKeyDown(event) /\ ~down
    THEN LET w1 == [w EXCEPT !.pointer.dragging = TRUE]
             w2 == IF w.variant = "lock"
                   THEN saveLayoutPositionAsLatLng(w1, w1.nodes) ELSE w1
             w3 == dispatchMapEvent(w2, event, down, chain)
         IN IF w.variant = "lock"
            THEN [w3 EXCEPT !.pointer.drags = @ + 1, !.pointer.ups = @ + 1]
            ELSE [w3 EXCEPT !.pointer.ups = @ + 1]
    ELSE w

\* onGraphContainerMouseMove; in revision "lock" the condition reads
\* renderer.hoverData of `this.cy?.renderer()`, which is undefined once the
\* handler is destroyed
onGraphContainerMouseMove(w, event, down, chain) ==
    IF event.buttons = 1 /\ ~isMultSelKeyDown(event)
    THEN IF w.variant = "lock" /\ w.phase # "active"
         THEN [w EXCEPT !.thrown = "TypeError: renderer is undefined"]
         ELSE IF ~down
         THEN dispatchMapEvent([w EXCEPT !.panning = TRUE], event, down, chain)
         ELSE w
    ELSE w

\* the one-shot callback of mouseup (document) or tapend (cy); in revision
\* "lock" it reads this.cy.renderer() without a guard
onPointerUp(w) ==
    IF ~w.panning THEN w
    ELSE IF w.variant = "lock" /\ w.phase # "active"
    THEN [w EXCEPT !.panning = FALSE,
                   !.thrown = "TypeError: this.cy is undefined"]
    ELSE IF w.phase = "active"
    THEN [w EXCEPT !.panning = FALSE, !.pointer.dragged = TRUE]
    ELSE [w EXCEPT !.panning = FALSE]

\* the callbacks of the graph container for an event; an event is not
\* followed further than MaxChain forwards
bubble(w, event, down, chain) ==
    IF chain >= MaxChain THEN w
    ELSE CASE event.type = "wheel" /\ "wheel" \in w.listeners ->
                onGraphContainerWheel(w, event, down, chain)
           [] event.type = "mousedown"
                /\ w.listeners \cap {"mousedown", "tapstart"} # {} ->
                onGraphContainerMouseDown(w, event, down, chain)
           [] event.type = "mousemove" /\ "mousemove" \in w.listeners ->
                onGraphContainerMouseMove(w, event, down, chain)
           [] OTHER -> w

-----------------------------------------------------------------------------
(* Initial states: a graph before any handler exists *)

NoPre ==
    [set |-> FALSE, vp |-> Identity, flags |-> Flags(FALSE, FALSE, FALSE),
     pos |-> StartPos, hidden |-> [n \in Nodes |-> FALSE]]

\* the option objects the main specification constructs handlers with
MainOptions ==
    {Options("fn", sp, an, hd) :
        sp \in {"absent", "fn"}, an \in BOOLEAN, hd \in BOOLEAN}

Variants == {"old", "raf", "lock"}

\* the graphs the exploration starts from: which nodes exist, what the
\* accessor returns for them, which of them the application has locked
StartNative ==
    {[n \in Nodes |-> IF n = "n1" THEN a ELSE b] :
        a \in {G1, BadThrow, BadNull}, b \in {NoLL, G2}}
StartLocked ==
    {[n \in Nodes |-> n \in L] : L \in {{}, {"n1"}, {"n2"}}}

InitWith(viewports, flagSets) ==
    /\ variant = "none"
    /\ phase = "none"
    /\ opts = NoOptions
    /\ nodes \in {Nodes, {"n1"}}
    /\ pos = StartPos
    /\ locked \in StartLocked
    /\ \A n \in Nodes \ nodes : ~locked[n]
    /\ hidden = [n \in Nodes |-> FALSE]
    /\ scratch = [n \in Nodes |-> NoLL]
    /\ native \in StartNative
    /\ \A n \in Nodes \ nodes : native[n] = NoLL
    /\ vp \in viewports
    /\ flags \in flagSets
    /\ orig = NoOrig
    /\ map = NoMap
    /\ panning = FALSE
    /\ layouting = FALSE
    /\ frames = << >>
    /\ timers = 0
    /\ vpAnims = << >>
    /\ layoutAnims = << >>
    /\ listeners = {}
    /\ relay = NoRelay
    /\ pointer = NoPointer
    /\ thrown = "none"
    /\ last = Op("none", {}, InitialView)
    /\ pre = NoPre
    /\ sync = NoSync
    /\ DEFAULT_LAYOUT = "preset"
    /\ steps = 0

\* the main specification starts from a zoomed and panned graph with the
\* native interaction enabled
Init == InitWith({[zoom |-> 2, pan |-> Point(5, 5)]}, {Flags(TRUE, TRUE, FALSE)})

-----------------------------------------------------------------------------
(* Actions *)

\* a revision "raf" handler can request one more animation frame
CanSchedule == variant = "raf" => Len(frames) < MaxPending

Construct(optionSet) ==
    /\ phase = "none"
    /\ \E v \in Variants, o \in optionSet : Commit(construct(World, v, o))

\* after a handler of revision "raf" was destroyed and its pending work is
\* done, the application constructs a new one on the same graph
ConstructAgain(optionSet) ==
    /\ phase = "destroyed" /\ variant = "raf"
    /\ frames = << >> /\ layoutAnims = << >> /\ vpAnims = << >>
    /\ \E o \in optionSet :
        Commit(construct([World EXCEPT !.panning = FALSE, !.layouting = FALSE,
                                       !.pointer = NoPointer, !.relay = NoRelay],
                         "raf", o))

Destroy ==
    /\ phase \in {"active", "destroyed"}
    /\ Commit(destroy(World))

\* the map view changes (user pan or zoom of the map): Leaflet fires 'move'
MapMove ==
    /\ map.present
    /\ CanSchedule
    /\ \E v \in MoveViews :
        /\ v # map.view
        /\ LET w1 == [World EXCEPT !.map.view = v, !.map.moving = TRUE,
                                   !.thrown = "none"]
               w2 == IF "move" \in w1.listeners THEN onMapMove(w1) ELSE w1
           IN Commit([w2 EXCEPT !.last =
                        Op("move", syncedNow(w1, mapMoveSet(w1)), v)])

\* the application calls fit(nodes, {padding}); when map.fitBounds changes
\* the view, Leaflet fires 'move'
Fit ==
    /\ phase \in {"active", "destroyed"}
    /\ CanSchedule
    /\ \E ns \in SUBSET nodes :
        LET w1 == fit([World EXCEPT !.thrown = "none"], ns, DEFAULT_FIT_PADDING)
            moved == w1.map.view # map.view
            w2 == IF moved THEN [w1 EXCEPT !.map.moving = TRUE] ELSE w1
            w3 == IF moved /\ "move" \in w2.listeners THEN onMapMove(w2) ELSE w2
        IN Commit([w3 EXCEPT !.last =
                     [Op("fit", IF moved THEN syncedNow(w2, mapMoveSet(w2)) ELSE {},
                         w1.map.view)
                        EXCEPT !.eles = ns]])

\* the map comes to rest: Leaflet fires 'moveend'
MapMoveEnd ==
    /\ map.present /\ map.moving
    /\ timers < MaxTimers
    /\ LET w1 == [World EXCEPT !.map.moving = FALSE, !.thrown = "none"]
           w2 == IF "moveend" \in w1.listeners THEN onMapMoveEnd(w1) ELSE w1
       IN Commit([w2 EXCEPT !.last = Op("moveend", {}, w1.map.view)])

\* the timer that onMapMoveEnd started fires
SettleTimer ==
    /\ timers > 0
    /\ Commit([onSettleTimer([World EXCEPT !.timers = @ - 1, !.thrown = "none"])
                 EXCEPT !.last = Op("timer", {}, map.view)])

\* the browser runs the animation frame callbacks
Frame ==
    /\ frames # << >>
    /\ LET w1 == runFrames([World EXCEPT !.frames = << >>, !.thrown = "none"], frames)
           jobs == UNION {frames[i] : i \in 1..Len(frames)}
       IN Commit([w1 EXCEPT !.last =
                    Op("frame", IF phase = "active" THEN jobs ELSE {}, map.view)])

\* the application adds a node to the graph: cytoscape emits 'add'
GraphAdd ==
    /\ phase = "active"
    /\ CanSchedule
    /\ \E n \in Nodes \ nodes, g \in NativeVals, lk \in BOOLEAN :
        LET w1 == [World EXCEPT !.nodes = @ \cup {n}, !.native[n] = g,
                                !.locked[n] = lk, !.thrown = "none"]
            w2 == IF "add" \in w1.listeners THEN onGraphAdd(w1, n) ELSE w1
        IN Commit([w2 EXCEPT !.last =
                     [Op("add", syncedNow(w1, {n}), map.view)
                         EXCEPT !.target = n]])

\* the application takes a node out of the graph and puts it back
\* (ele.remove() and ele.restore(), or ele.move()): the node keeps its
\* position, data and scratch, and cytoscape emits 'add' for it
GraphRestore ==
    /\ phase = "active"
    /\ CanSchedule
    /\ \E n \in nodes :
        LET w1 == [World EXCEPT !.thrown = "none"]
            w2 == IF "add" \in w1.listeners THEN onGraphAdd(w1, n) ELSE w1
        IN Commit([w2 EXCEPT !.last =
                     [Op("add", syncedNow(w1, {n}), map.view)
                         EXCEPT !.target = n]])

\* the user drags a grabbable node to a point and releases it: 'dragfree'
DragFree ==
    /\ phase = "active"
    /\ CanSchedule
    /\ \E n \in nodes, p \in DropPoints :
        /\ ~locked[n] /\ ~hidden[n] /\ ~flags.autoungrabify
        /\ LET w1 == [World EXCEPT !.pos[n] = p, !.thrown = "none"]
               w2 == IF "dragfree" \in w1.listeners THEN onGraphDragFree(w1, n) ELSE w1
           IN Commit([w2 EXCEPT !.last =
                        [Op("dragfree", syncedNow(w1, {n}), map.view)
                            EXCEPT !.arg = dragFreeArg(w1, n),
                                   !.target = n, !.point = p]])

\* the application changes the data that getPosition reads: 'data'
DataChange ==
    /\ phase = "active"
    /\ CanSchedule
    /\ \E n \in nodes, g \in NativeVals :
        /\ g # native[n]
        /\ LET w1 == [World EXCEPT !.native[n] = g, !.thrown = "none"]
               w2 == IF "data" \in w1.listeners THEN onDataChange(w1) ELSE w1
           IN Commit([w2 EXCEPT !.last =
                        Op("data", IF "data" \in w1.listeners
                                   THEN syncedNow(w1, w1.nodes) ELSE {}, map.view)])

\* the application changes data that getPosition does not read, on one
\* element or on several at once: cytoscape emits 'data' once per element
DataTouch ==
    /\ phase = "active"
    /\ \E k \in 1..MaxPending :
        /\ variant = "raf" => Len(frames) + k <= MaxPending
        /\ LET RECURSIVE emit(_, _)
               emit(w, i) ==
                   IF i = 0 \/ "data" \notin w.listeners THEN w
                   ELSE emit(onDataChange(w), i - 1)
               w1 == [World EXCEPT !.thrown = "none"]
           IN Commit([emit(w1, k) EXCEPT !.last =
                        Op("data", IF "data" \in w1.listeners
                                   THEN syncedNow(w1, w1.nodes) ELSE {}, map.view)])

\* a viewport animation started by cy.animate ends
ViewportAnimationEnd ==
    /\ vpAnims # << >>
    /\ Commit([World EXCEPT !.vp = Head(vpAnims), !.vpAnims = Tail(vpAnims),
                            !.thrown = "none",
                            !.last = Op("vpanim", {}, map.view)])

\* an animated layout ends: positions are final and 'layoutstop' is emitted
LayoutAnimationEnd ==
    /\ layoutAnims # << >>
    /\ Commit([layoutDone([World EXCEPT !.layoutAnims = Tail(layoutAnims),
                                        !.thrown = "none"], Head(layoutAnims))
                 EXCEPT !.last = Op("layoutanim", {}, map.view)])

\* the application locks a node: node.lock()
AppLock ==
    /\ phase \in {"active", "destroyed"}
    /\ \E n \in nodes :
        /\ ~locked[n]
        /\ Commit([World EXCEPT !.locked[n] = TRUE, !.thrown = "none",
                                !.last = [Op("lock", {}, map.view)
                                            EXCEPT !.target = n]])

\* the user taps a node with the secondary button: cytoscape emits cxttap
ContextTap ==
    /\ phase \in {"active", "destroyed"}
    /\ \E n \in nodes :
        LET w1 == [World EXCEPT !.thrown = "none"]
            w2 == IF "cxttap" \in w1.listeners THEN onContextTap(w1, n) ELSE w1
        IN Commit([w2 EXCEPT !.last = [Op("cxttap", {}, map.view)
                                         EXCEPT !.target = n]])

\* a layout that the application runs on the nodes stops where the nodes
\* are: cytoscape emits layoutstop
LayoutStop ==
    /\ phase \in {"active", "destroyed"}
    /\ Commit([emitLayoutStop([World EXCEPT !.thrown = "none"], nodes)
                 EXCEPT !.last = Op("layoutstop", {}, map.view)])

\* the positions at which a layout of the application puts the nodes
LayoutResults ==
    {r \in {[n \in Nodes |-> IF n = "n1" THEN a ELSE b] :
               a \in DropPoints, b \in DropPoints} : r["n1"] # r["n2"]}

\* the application runs a layout that takes time (animated) on some of the
\* nodes: cytoscape emits layoutstart now and layoutstop when it ends
LayoutStart ==
    /\ phase \in {"active", "destroyed"}
    /\ Len(layoutAnims) < MaxPending
    /\ \E eles \in (SUBSET nodes) \ {{}}, positions \in LayoutResults :
        LET w1 == runLayout([World EXCEPT !.thrown = "none"], eles, positions,
                            FALSE, 0, TRUE, "none")
        IN Commit([w1 EXCEPT !.last = [Op("layoutstart", {}, map.view)
                                         EXCEPT !.eles = eles]])

\* the user turns the wheel over the graph container
Wheel ==
    /\ phase \in {"active", "destroyed"}
    /\ \E target \in Targets, mod \in BOOLEAN, down \in BOOLEAN :
        LET event == DomEvent("wheel", target, 0, mod, TRUE)
            w1 == [World EXCEPT !.relay = [NoRelay EXCEPT !.event = event, !.down = down],
                                !.thrown = "none"]
        IN Commit([bubble(w1, event, down, 0)
                     EXCEPT !.last = Op("wheel", {}, map.view)])

\* the user presses a pointer button over the graph container
PointerDown ==
    /\ phase \in {"active", "destroyed"}
    /\ pointer.ups < MaxPending
    /\ pointer.held = 0
    /\ \E target \in Targets, buttons \in {1, 2, 3}, mod \in BOOLEAN, down \in BOOLEAN :
        LET event == DomEvent("mousedown", target, buttons, mod, TRUE)
            w1 == [World EXCEPT !.relay = [NoRelay EXCEPT !.event = event, !.down = down],
                                !.thrown = "none"]
        IN Commit([bubble(w1, event, down, 0)
                     EXCEPT !.pointer.held = buttons,
                            !.last = Op("mousedown", {}, map.view)])

\* the user moves the pointer over the graph container, with the buttons
\* that are held. In revision "lock" the move reaches the handler through the
\* pending one-shot tapdrag callbacks, each of which runs once.
PointerMove ==
    /\ phase \in {"active", "destroyed"}
    /\ \E target \in Targets, mod \in BOOLEAN, down \in BOOLEAN :
        LET event == DomEvent("mousemove", target, pointer.held, mod, TRUE)
            w1 == [World EXCEPT !.relay = [NoRelay EXCEPT !.event = event, !.down = down],
                                !.thrown = "none"]
            RECURSIVE tapdrag(_, _)
            tapdrag(w, k) ==
                IF k = 0 THEN w
                ELSE tapdrag(onGraphContainerMouseMove(w, event, down, 0), k - 1)
            w2 == IF variant = "lock"
                  THEN tapdrag([w1 EXCEPT !.pointer.drags = 0], pointer.drags)
                  ELSE bubble(w1, event, down, 0)
        IN Commit([w2 EXCEPT !.last = Op("mousemove", {}, map.view)])

\* the user releases the pointer buttons: the pending one-shot callbacks of
\* mouseup (document) or tapend (cy) run, if there are any
PointerUp ==
    /\ pointer.held # 0
    /\ LET RECURSIVE up(_, _)
           up(w, k) == IF k = 0 THEN w ELSE up(onPointerUp(w), k - 1)
           w1 == [World EXCEPT !.relay = NoRelay, !.thrown = "none",
                               !.pointer.ups = 0, !.pointer.held = 0]
       IN Commit([up(w1, pointer.ups) EXCEPT !.last = Op("mouseup", {}, map.view)])

Next ==
    \/ Construct(MainOptions)
    \/ Destroy
    \/ MapMove
    \/ MapMoveEnd
    \/ SettleTimer
    \/ Frame
    \/ GraphAdd
    \/ DragFree
    \/ DataChange
    \/ ViewportAnimationEnd
    \/ LayoutAnimationEnd

Spec == Init /\ [][Next]_vars

\* the handler under the user's pointer and wheel events
RelayOptions == {Options("fn", "absent", FALSE, FALSE)}

NextRelay ==
    \/ Construct(RelayOptions)
    \/ Destroy
    \/ Wheel
    \/ PointerDown
    \/ PointerMove
    \/ PointerUp

\* one graph: an anchored node and a node without anchor, neither locked
InitRelay ==
    /\ Init
    /\ nodes = Nodes
    /\ native = [n \in Nodes |-> IF n = "n1" THEN G1 ELSE NoLL]
    /\ locked = [n \in Nodes |-> FALSE]

SpecRelay == InitRelay /\ [][NextRelay]_vars

\* the handler constructed with every kind of option value
ConfigOptions ==
    {Options(gp, sp, FALSE, hd) :
        gp \in {"fn", "nonfn"}, sp \in {"absent", "fn", "falsy", "truthy"},
        hd \in BOOLEAN}

NextConfig ==
    \/ Construct(ConfigOptions)
    \/ Destroy
    \/ DragFree
    \/ Frame

SpecConfig == Init /\ [][NextConfig]_vars

\* the handler under map moves and data events that change no anchor
SyncOptions == {Options("fn", "absent", FALSE, hd) : hd \in BOOLEAN}

NextSync ==
    \/ Construct(SyncOptions)
    \/ Destroy
    \/ MapMove
    \/ DataTouch
    \/ Frame

SpecSync == Init /\ [][NextSync]_vars

\* the handler under presses of the pointer, which make revision "lock"
\* cache the anchors, and changes of the data that getPosition reads
NextAnchor ==
    \/ Construct(RelayOptions)
    \/ PointerDown
    \/ PointerUp
    \/ DataChange
    \/ Frame

SpecAnchor == InitRelay /\ [][NextAnchor]_vars

\* the handler under calls of fit and moves of the map
NextFit ==
    \/ Construct(SyncOptions)
    \/ Destroy
    \/ Fit
    \/ MapMove
    \/ Frame

SpecFit == Init /\ [][NextFit]_vars

\* the handler and the graph it leaves behind, under the events of the graph
NextAfter ==
    \/ Construct(RelayOptions)
    \/ Destroy
    \/ AppLock
    \/ ContextTap
    \/ LayoutStop
    \/ PointerDown
    \/ PointerMove
    \/ PointerUp

SpecAfter == InitRelay /\ [][NextAfter]_vars

\* the handler on graphs with either configuration of viewport and flags
NextFlags ==
    \/ Construct(MainOptions)
    \/ Destroy
    \/ MapMove
    \/ DragFree
    \/ DataTouch
    \/ Frame

InitFlags ==
    /\ InitWith(StartViewports, StartFlags)
    /\ nodes = Nodes
    /\ locked = [n \in Nodes |-> FALSE]

SpecFlags == InitFlags /\ [][NextFlags]_vars

\* layouts of the application that overlap with moves of the map and with
\* changes of data
NextLayout ==
    \/ Construct(SyncOptions)
    \/ Destroy
    \/ LayoutStart
    \/ LayoutAnimationEnd
    \/ MapMove
    \/ DataTouch
    \/ Frame

SpecLayout == InitRelay /\ [][NextLayout]_vars

\* the graph of InitRelay before a handler exists
StartWorld ==
    [variant |-> "none", phase |-> "none", opts |-> NoOptions, nodes |-> Nodes,
     pos |-> StartPos, locked |-> [n \in Nodes |-> FALSE],
     hidden |-> [n \in Nodes |-> FALSE], scratch |-> [n \in Nodes |-> NoLL],
     native |-> [n \in Nodes |-> IF n = "n1" THEN G1 ELSE NoLL],
     vp |-> [zoom |-> 2, pan |-> Point(5, 5)], flags |-> Flags(TRUE, TRUE, FALSE),
     orig |-> NoOrig, map |-> NoMap, panning |-> FALSE, layouting |-> FALSE,
     frames |-> << >>, timers |-> 0, vpAnims |-> << >>, layoutAnims |-> << >>,
     listeners |-> {}, relay |-> NoRelay, pointer |-> NoPointer,
     thrown |-> "none", last |-> Op("none", {}, InitialView), pre |-> NoPre,
     sync |-> NoSync, DEFAULT_LAYOUT |-> "preset"]

\* the state in which new MapHandler(cy, mapOptions, options) of revision
\* "raf" leaves that graph
InitConstructed ==
    \E w \in {construct(StartWorld, "raf", o) : o \in SyncOptions} :
           /\ variant = w.variant /\ phase = w.phase /\ opts = w.opts
           /\ nodes = w.nodes /\ pos = w.pos /\ locked = w.locked
           /\ hidden = w.hidden /\ scratch = w.scratch /\ native = w.native
           /\ vp = w.vp /\ flags = w.flags /\ orig = w.orig /\ map = w.map
           /\ panning = w.panning /\ layouting = w.layouting
           /\ frames = w.frames /\ timers = w.timers /\ vpAnims = w.vpAnims
           /\ layoutAnims = w.layoutAnims /\ listeners = w.listeners
           /\ relay = w.relay /\ pointer = w.pointer /\ thrown = w.thrown
           /\ last = w.last /\ pre = w.pre /\ sync = w.sync
           /\ DEFAULT_LAYOUT = w.DEFAULT_LAYOUT
           /\ steps = 0

\* moves of the map while layouts of the application are in flight: every
\* animation frame job is the job of a map move
NextInFlight ==
    \/ Destroy
    \/ LayoutStart
    \/ LayoutAnimationEnd
    \/ MapMove
    \/ Frame

SpecInFlight == InitConstructed /\ [][NextInFlight]_vars

\* the variables hold one of the worlds ws and no step has been taken
InitOf(ws) ==
    \E w \in ws :
        /\ variant = w.variant /\ phase = w.phase /\ opts = w.opts
        /\ nodes = w.nodes /\ pos = w.pos /\ locked = w.locked
        /\ hidden = w.hidden /\ scratch = w.scratch /\ native = w.native
        /\ vp = w.vp /\ flags = w.flags /\ orig = w.orig /\ map = w.map
        /\ panning = w.panning /\ layouting = w.layouting
        /\ frames = w.frames /\ timers = w.timers /\ vpAnims = w.vpAnims
        /\ layoutAnims = w.layoutAnims /\ listeners = w.listeners
        /\ relay = w.relay /\ pointer = w.pointer /\ thrown = w.thrown
        /\ last = w.last /\ pre = w.pre /\ sync = w.sync
        /\ DEFAULT_LAYOUT = w.DEFAULT_LAYOUT
        /\ steps = 0

\* the state in which new MapHandler(cy, mapOptions, options) of revision
\* "lock" leaves the graph of InitRelay
InitLocking == InitOf({construct(StartWorld, "lock", o) : o \in RelayOptions})

\* pan gestures and map moves that settle, in revision "lock"
NextSettle ==
    \/ Destroy
    \/ PointerDown
    \/ PointerUp
    \/ MapMove
    \/ MapMoveEnd
    \/ SettleTimer

SpecSettle == InitLocking /\ [][NextSettle]_vars

\* the state in which the constructor of either revision leaves the graph
\* of InitRelay
InitActive ==
    InitOf({construct(StartWorld, v, o) : v \in Variants, o \in RelayOptions})

\* successive pointer gestures on a constructed handler
NextGesture ==
    \/ Destroy
    \/ PointerDown
    \/ PointerMove
    \/ PointerUp

SpecGesture == InitActive /\ [][NextGesture]_vars

\* nodes that are added to the graph, or taken out and put back, while the
\* handler is active
NextAdd ==
    \/ Construct(SyncOptions)
    \/ Destroy
    \/ GraphAdd
    \/ GraphRestore
    \/ MapMove
    \/ Frame

SpecAdd == Init /\ [][NextAdd]_vars

\* handlers with and without a layout option, one after the other
LayoutOptions ==
    {[Options("fn", "absent", FALSE, hd) EXCEPT !.layout = l] :
        hd \in BOOLEAN, l \in {"absent", "grid"}}

NextOptions ==
    \/ Construct(LayoutOptions)
    \/ Destroy
    \/ ConstructAgain(LayoutOptions)
    \/ MapMove
    \/ Frame

SpecOptions == Init /\ [][NextOptions]_vars

-----------------------------------------------------------------------------
(* Claims *)

ValidNative(n) == getNodeLngLat(World, n).k = "ok"
NativePoint(n) == latLngToContainerPoint(last.view, getNodeLngLat(World, n))

\* C1: after a completed synchronization pass every node of the synchronized
\* set that has a valid native anchor is at the projection of that anchor
\* under the map view of the pass.
C1_SyncedAtProjection ==
    \A n \in last.synced :
        (phase = "active" /\ ValidNative(n)) => pos[n] = NativePoint(n)


\* a node has neither a native nor a derived anchor
NoAnchor(n) == resolveAnchor(World, n, FALSE).k # "ok"

\* C2: with no setPosition configured, after a node without native anchor is
\* dropped at a point P its derived anchor is the inverse projection of P
\* under the current map view, and the node is at P.
C2_DropStoresDerivedAnchor ==
    (/\ last.op = "dragfree" /\ phase = "active"
     /\ variant \in {"raf", "lock"}
     /\ ~Truthy(opts.setPosition)
     /\ ~ValidNative(last.target))
    => /\ scratch[last.target] = containerPointToLatLng(map.view, last.point)
       /\ pos[last.target] = last.point

\* C3: a non-animated Destroy of an active handler leaves the graph with the
\* zoom and pan and the interaction flags it had before construction.
C3_DestroyRestoresViewport ==
    [][(phase = "active" /\ ~opts.animate /\ vpAnims = << >>
        /\ phase' = "destroyed")
       => (vp' = pre.vp /\ flags' = pre.flags)]_vars

\* C4: Destroy on a handler that is already destroyed does not throw and
\* changes no node, graph or map state.
C4_SecondDestroySilent ==
    [][(phase = "destroyed" /\ last'.op = "destroy")
       => /\ thrown' = "none"
          /\ UNCHANGED << nodes, pos, locked, hidden, scratch, vp, flags, map,
                          listeners >>]_vars

\* C5: Construct raises the configuration error if and only if getPosition
\* is not a function or setPosition is supplied and is not a function.
C5_ConfigurationErrorIff ==
    last.op = "construct"
    => ((phase = "failed" /\ thrown # "none")
        <=> (opts.getPosition # "fn" \/ opts.setPosition \notin {"absent", "fn"}))

\* C6: after a non-animated Construct with hideNonPositional = true every
\* node with a valid native anchor is at the projection of the anchor and not
\* hidden, and every node that came without anchor is hidden.
C6_ConstructPlacesAndHides ==
    (/\ last.op = "construct" /\ phase = "active"
     /\ opts.hideNonPositional /\ ~opts.animate)
    => \A n \in nodes :
          /\ ValidNative(n) => (pos[n] = NativePoint(n) /\ ~hidden[n])
          /\ ~ValidNative(n) => hidden[n]

\* C7: with hideNonPositional false or not supplied no step of the handler
\* hides a node, and a node without anchor keeps its position in every step
\* in which it is not the node being dropped.
C7_NoHidingUnlessAsked ==
    [][(phase' = "active" /\ ~opts'.hideNonPositional)
       => \A n \in nodes' :
             /\ hidden'[n] => (n \in nodes /\ hidden[n])
             /\ (n \in nodes /\ NoAnchor(n)' /\ last'.op # "dragfree")
                   => pos'[n] = pos[n]]_vars

\* C8: when a node with a valid native anchor is added while the handler is
\* active, it is at the projection of the anchor when the add event has
\* been handled (stated for a node that the application has not locked).
C8_AddedNodePlaced ==
    (/\ last.op = "add" /\ phase = "active" /\ ValidNative(last.target)
     /\ variant # "lock" => ~locked[last.target])
    => pos[last.target] = latLngToContainerPoint(map.view, native[last.target])

\* C9: a wheel event on the graph container whose target is outside the
\* map container has its default action prevented and is dispatched exactly
\* once, with its type and properties, on the map container.
C9_WheelForwardedAndPrevented ==
    (last.op = "wheel" /\ phase = "active" /\ ~InMapContainer(relay.event.target))
    => /\ relay.prevented
       /\ relay.dispatched = 1
       /\ relay.sent.type = relay.event.type
       /\ relay.sent.buttons = relay.event.buttons
       /\ relay.sent.mod = relay.event.mod

\* C10: the relay never forwards an event whose target is the map container
\* or inside it, so a forwarded event that comes back to the graph container
\* is not forwarded again: no chain of forwards is longer than one.
C10_NoForwardFromMap ==
    /\ \A t \in relay.from : ~InMapContainer(t)
    /\ relay.depth <= 1

\* a user event was forwarded and its clone came back to the attached callback
C10_Witness ==
    /\ relay.event.type \in {"wheel", "mousedown"}
    /\ relay.dispatched = 1 /\ relay.depth = 1
    /\ relay.sent.target = "mapContainer"
    /\ listeners \cap {"wheel", "mousedown", "tapstart"} # {}

\* C11: a pointer-down or pointer-move on the graph container that is not a
\* press of the primary button alone, or that comes with shift, ctrl or meta
\* held, or that the renderer has claimed (hoverData.down set), dispatches
\* nothing on the map container and leaves `panning` as it was.
C11_ForwardOnlyPrimaryAlone ==
    [][(/\ last'.op \in {"mousedown", "mousemove"}
        /\ ~(relay'.event.buttons = 1 /\ ~relay'.event.mod /\ ~relay'.down))
       => (relay'.dispatched = 0 /\ panning' = panning)]_vars

\* a move with the primary button and a modifier key held reached the attached
\* callback and was neither forwarded nor taken as a pan
C11_Witness ==
    /\ last.op = "mousemove" /\ phase = "active"
    /\ "mousemove" \in listeners
    /\ relay.event.buttons = 1 /\ relay.event.mod /\ ~relay.down
    /\ ~InMapContainer(relay.event.target)
    /\ relay.dispatched = 0 /\ ~panning

\* C12: a pointer-up that ends a gesture in which `panning` was set resets
\* `panning` and sets hoverData.dragged, so that `panning` is false whenever
\* no pointer button is held.
C12_PanningEndsWithGesture ==
    (phase = "active" /\ pointer.held = 0) => ~panning

\* C13: when the full synchronization pass runs twice in succession, with no
\* change of the map view, the anchors or the node positions in between, the
\* second pass writes no node position.
C13_SecondPassWritesNothing ==
    sync.passes >= 2 => sync.writes = 0

\* C14: with setPosition configured, a drag-free event hands setPosition the
\* dropped node and the inverse projection of its position, and neither the
\* handler of the event nor the synchronization pass it triggers creates or
\* changes the derived anchor of any node.
C14_DragFreeKeepsDerivedAnchors ==
    [][(/\ phase = "active" /\ opts.defined /\ Truthy(opts.setPosition)
        /\ \/ last'.op = "dragfree"
           \/ /\ last.op = "dragfree" /\ last'.op = "frame"
              /\ frames = << {last.target} >>)
       => /\ scratch' = scratch
          /\ last'.op = "dragfree" =>
                last'.arg = containerPointToLatLng(map.view, last'.point)]_vars

\* C15: anchor resolution returns the native anchor of a node whenever that
\* anchor is valid, also when the node has a cached derived anchor; it returns
\* something else only when the native anchor is absent or invalid and
\* onlyNativePosition is false, and that is the derived anchor.
C15_NativeAnchorFirst ==
    \A n \in nodes, b \in IF variant = "raf" THEN BOOLEAN ELSE {FALSE} :
        LET lngLat == getNodeLngLat(World, n)
            resolved == resolveAnchor(World, n, b)
        IN /\ lngLat.k = "ok" => resolved = lngLat
           /\ b => resolved = lngLat
           /\ resolved # lngLat => resolved = scratch[n]

\* a pass has placed a node that has a valid native anchor and a different
\* derived anchor: the node is at the projection of the native one
C15_Witness ==
    \E n \in last.synced :
        /\ phase = "active" /\ ValidNative(n)
        /\ scratch[n].k = "ok" /\ scratch[n] # getNodeLngLat(World, n)
        /\ pos[n] = NativePoint(n)
        /\ pos[n] # latLngToContainerPoint(last.view, scratch[n])

\* options.getPosition returns for n a value that L.latLng rejects
Rejected(n) == native[n].k \in {"badnull", "badthrow"}

\* the same state, with null where the accessor returns a rejected value
AsNull(w) ==
    [w EXCEPT !.native = [n \in Nodes |->
                            IF @[n].k \in {"badnull", "badthrow"} THEN NoLL
                            ELSE @[n]]]

\* the synchronization pass of the revision over all the nodes
fullPass(w) ==
    CASE w.variant = "old" -> updateOld(w, w.nodes)
      [] w.variant = "raf" -> updatePositions(w, w.nodes)
      [] OTHER -> updateNodePosition(w, w.nodes)

\* C16: a node for which getPosition returns a value that L.latLng rejects,
\* by returning nothing or by throwing, has no native anchor: construction,
\* fit and the synchronization pass throw nothing and do what they do when
\* the accessor returns null for the node.
C16_RejectedAnchorIsNoAnchor ==
    /\ \A n \in nodes : Rejected(n) => getNodeLngLat(World, n) = NoLL
    /\ (phase = "active" /\ last.op \in {"construct", "move", "data", "frame"})
          => thrown = "none"
    /\ phase = "none" =>
          \A v \in Variants, o \in SyncOptions :
              construct(World, v, o)
                = [construct(AsNull(World), v, o) EXCEPT !.native = native]
    /\ phase = "active" =>
          /\ fit(World, nodes, DEFAULT_FIT_PADDING)
               = [fit(AsNull(World), nodes, DEFAULT_FIT_PADDING)
                    EXCEPT !.native = native]
          /\ fullPass(World) = [fullPass(AsNull(World)) EXCEPT !.native = native]

\* a pass that followed a move of the map went over a node whose accessor
\* returns a rejected value and left the node where it was
C16_Witness ==
    \E n \in last.synced :
        /\ phase = "active" /\ last.op = "move" /\ Rejected(n)
        /\ scratch[n].k # "ok" /\ pos[n] = pre.pos[n]

\* C17: fit(nodes) changes the map view only when a node of the set has a
\* valid native anchor, and then to the bounds of the native anchors of the
\* set; when no node has one, it throws nothing and leaves the map as it is,
\* whatever derived anchors the nodes carry.
C17_FitByNativeAnchorsOnly ==
    [][last'.op = "fit" =>
         LET anchors == {native[n] : n \in {m \in last'.eles : ValidNative(m)}}
         IN /\ thrown' = "none"
            /\ anchors = {} => map' = map
            /\ anchors # {} /\ map.present =>
                  map'.view = fitBounds(anchors, DEFAULT_FIT_PADDING)]_vars

\* fit was called with nodes that have derived anchors and no native ones
C17_Witness ==
    /\ last.op = "fit" /\ phase = "active" /\ last.eles # {}
    /\ \A n \in last.eles : ~ValidNative(n) /\ scratch[n].k = "ok"
    /\ thrown = "none"

\* C18: once destroy has returned, no event of the graph (tap start, drag or
\* end, context tap, layout stop) makes the handler change the position, the
\* lock state, the visibility or the derived anchor of a node.
C18_NoCallbackAfterDestroy ==
    [][(/\ phase = "destroyed"
        /\ last'.op \in {"mousedown", "mousemove", "mouseup", "cxttap",
                         "layoutstop"})
       => /\ pos' = pos /\ locked' = locked
          /\ hidden' = hidden /\ scratch' = scratch]_vars

\* C19: after destroy, and once the layout that destroy started has stopped,
\* no node carries the hidden class and the display:none style that the
\* handler gave it.
C19_NothingHiddenAfterDestroy ==
    (phase = "destroyed" /\ layoutAnims = << >>)
    => \A n \in nodes : ~hidden[n]

\* C20: after destroy, and once the layout that destroy started has stopped,
\* no node carries a cached derived anchor.
C20_NoDerivedAnchorAfterDestroy ==
    (phase = "destroyed" /\ layoutAnims = << >>)
    => \A n \in nodes : scratch[n].k # "ok"

C22_PanZoomOffGrabKept ==
    phase = "active"
    => /\ ~flags.userPanningEnabled /\ ~flags.userZoomingEnabled
       /\ flags.autoungrabify = pre.flags.autoungrabify

\* C22 as stated: user panning, user zooming and node grabbing are all
\* disabled while the handler is active.
C22_PanZoomGrabOff ==
    phase = "active"
    => /\ ~flags.userPanningEnabled /\ ~flags.userZoomingEnabled
       /\ flags.autoungrabify

\* a handler is active on a graph that had panning enabled, after one of its
\* callbacks ran
C22_Witness ==
    /\ phase = "active" /\ pre.flags.userPanningEnabled
    /\ last.op \in {"move", "dragfree", "data", "frame"}
    /\ ~flags.userPanningEnabled

\* C23: while a handler constructed without animation is active, the viewport
\* of the graph is the identity: zoom 1 and pan (0,0).
C23_IdentityViewportWhileActive ==
    (phase = "active" /\ ~opts.animate) => vp = Identity

\* C24: at most one synchronization job is pending: a job that is requested
\* while another waits for its animation frame takes the place of that one.
C24_OnePendingJob ==
    Len(frames) <= 1

\* C25: a synchronization job that was requested before destroy and runs in
\* an animation frame after it writes no node position, changes the
\* visibility of no node and projects no anchor.
C25_LateFrameDoesNothing ==
    [][(phase = "destroyed" /\ last'.op = "frame")
       => /\ pos' = pos /\ hidden' = hidden /\ sync'.writes = 0
          /\ \A n \in nodes : getGeographicPosition(World, n, FALSE) = NoPos]_vars

\* the job of an animation frame ran after destroy, over a graph with a node
\* whose accessor yields a coordinate
C25_Witness ==
    /\ phase = "destroyed" /\ last.op = "frame" /\ variant = "raf"
    /\ frames = << >>
    /\ \E n \in nodes : native[n].k = "ok"

\* C26: a callback of the graph surface, of the document or of a timer that
\* fires after destroy (the pointer-move or pointer-up callback of a pan
\* gesture that was in progress, the settle timer of a map move) throws
\* nothing and changes nothing of the graph or of its nodes.
C26_LateCallbackReturnsQuietly ==
    [][(/\ phase = "destroyed"
        /\ last'.op \in {"mousemove", "mouseup", "timer"})
       => /\ thrown' = "none"
          /\ pos' = pos /\ locked' = locked /\ hidden' = hidden
          /\ scratch' = scratch /\ vp' = vp /\ flags' = flags]_vars

\* C27: an operation of the handler (drag-free, layout stop, the snapshot of
\* a pointer press) stores a derived anchor only on a node that has no valid
\* native anchor.
C27_DerivedAnchorOnlyWithoutNative ==
    [][\A n \in nodes :
          (scratch'[n].k = "ok" /\ scratch'[n] # scratch[n])
          => ~ValidNative(n)]_vars

\* a layout in flight whose elements include a node without native anchor
LayoutInFlight ==
    \E i \in 1..Len(layoutAnims) :
        \E n \in layoutAnims[i].eles : ~ValidNative(n)

\* C28: layouting is true in exactly the states in which a layout over a
\* node without native anchor has started and has not stopped, also when
\* layouts overlap or when another layout stops.
C28_LayoutingWhileLayoutInFlight ==
    (phase = "active" /\ variant = "raf") => (layouting <=> LayoutInFlight)

\* C29: while a layout over a node without native anchor is in flight, the
\* synchronization that a move of the map caused writes the position of
\* natively anchored nodes only, also when it runs in an animation frame
\* after the move.
C29_MapMoveSyncSkipsLayoutedNodes ==
    [][(/\ phase = "active" /\ variant = "raf"
        /\ last.op = "move" /\ Len(frames) = 1 /\ LayoutInFlight
        /\ last'.op = "frame")
       => \A n \in nodes : ~ValidNative(n) => pos'[n] = pos[n]]_vars

\* C30: in the locking revision, while the handler is active every node with
\* a valid native anchor is locked at the end of every callback of the
\* handler (construction, synchronization pass, end of a map move, context
\* tap).
C30_AnchoredNodesLocked ==
    (phase = "active" /\ variant = "lock")
    => \A n \in nodes : ValidNative(n) => locked[n]

\* C31: nodes without native anchor are unlocked by the settle timer of a
\* map-move end and never while a move of the map is in progress: a timer
\* that fires after a new move has begun unlocks no node.
C31_NoUnlockWhileMapMoves ==
    [][(/\ phase = "active" /\ variant = "lock"
        /\ map.moving /\ last'.op = "timer")
       => locked' = locked]_vars

\* C32: before destroy the handler unlocks only nodes that it locked itself:
\* a node that other code locked and that has no anchor, native or derived,
\* is still locked after every callback of the handler.
C32_ForeignLockKept ==
    [][\A n \in nodes :
          (/\ phase' = "active" /\ locked[n]
           /\ NoAnchor(n) /\ NoAnchor(n)')
          => locked'[n]]_vars

\* the user event of the last step qualifies for a pan: primary button
\* alone, no modifier key, not claimed by the renderer, target outside the
\* map container
QualifyingEvent ==
    /\ relay.event.buttons = 1 /\ ~relay.event.mod /\ ~relay.down
    /\ ~InMapContainer(relay.event.target)

\* C33: during a pan gesture that started on the graph container, every
\* qualifying pointer move is dispatched on the map container exactly once:
\* the move that follows the qualifying press, and every move that follows a
\* forwarded move of the gesture.
C33_EveryPanMoveForwardedOnce ==
    [][(/\ phase = "active" /\ pointer.held = 1 /\ QualifyingEvent
        /\ \/ last.op = "mousedown"
           \/ last.op = "mousemove" /\ relay.dispatched >= 1
        /\ last'.op = "mousemove" /\ QualifyingEvent')
       => relay'.dispatched = 1]_vars

\* C34: hoverData.dragged is set at a pointer-up only when a pointer move of
\* the same gesture was forwarded to the map: a release that follows the
\* press directly, with no move in between, does not set it, whatever
\* gestures came before.
C34_NoDeselectSuppressionWithoutMove ==
    [][(phase = "active" /\ last.op = "mousedown" /\ last'.op = "mouseup")
       => pointer'.dragged = pointer.dragged]_vars

C36_OriginalPositionsKept ==
    [][/\ (last'.op = "construct" /\ phase' = "active")
          => /\ orig'.positionsSet
             /\ \A n \in nodes' : orig'.positions[n] = pos[n]
       /\ (last'.op = "add" /\ phase = "active" /\ last'.target \notin nodes)
          => orig'.positions[last'.target] = pos[last'.target]
       /\ (phase = "active" /\ phase' = "active")
          => \A n \in nodes : orig'.positions[n] = orig.positions[n]
       /\ phase' = "active"
          => \A n \in nodes' : orig'.positions[n].k = "ok"
       /\ (phase = "active" /\ phase' = "destroyed")
          => (~orig'.positionsSet /\ orig'.positions = NoPositions)]_vars

\* C37: with hideNonPositional set, after every synchronization pass a node
\* of the pass is hidden if and only if it has no anchor: a hidden node that
\* gets a valid anchor is shown again by the next pass.
C37_HiddenIffNoAnchor ==
    (phase = "active" /\ opts.hideNonPositional)
    => \A n \in last.synced : hidden[n] <=> NoAnchor(n)

\* the layout that a handler with the options o asks for
OwnLayout(o) == IF o.layout = "absent" THEN "preset" ELSE o.layout

\* C38: the default layout that a handler runs is the one of its own layout
\* option, the preset layout when it has none, whatever the options of the
\* handlers constructed before it; computing it leaves DEFAULT_LAYOUT, which
\* all handlers share, as it is.
C38_DefaultLayoutOwnOptionOnly ==
    (phase = "active" /\ variant = "raf")
    => /\ getDefaultLayout(World).name = OwnLayout(opts)
       /\ DEFAULT_LAYOUT = "preset"

====
